---- MODULE Spec2Model ----
(***************************************************************************)
(* A model of the arithmetic and constraint-system core of plonky:         *)
(*   - src/field.rs           Bls12Base multiplication (Barrett reduction) *)
(*   - src/gates/arithmetic.rs ArithmeticGate (native / recursive / witness)*)
(*   - src/hash_to_curve.rs   hash_base_field_to_curve (MapToGroup loop)    *)
(*   - src/plonk_recursion.rs recursive_verification_circuit                *)
(*                                                                         *)
(* Limbs are u64 in the source.  TLC's integers are 32 bits wide, so the   *)
(* model keeps the limb COUNT of the source (6, 12 and 18 limbs) and       *)
(* scales the limb WIDTH to LimbBits bits; a u128 accumulator is           *)
(* 2*LimbBits wide.  Every width-dependent step (truncation "as u64",      *)
(* ">> 64", overflow of += and +) is modelled at the scaled width.         *)
(***************************************************************************)
EXTENDS Integers, Sequences, FiniteSets, TLC

VARIABLES
    \* ---- field.rs: one call of Bls12Base::mul, or of mul_6_6 alone
    a, b,                 \* the two operands' limbs, [0..5 -> u64]
    profile,              \* build profile: "debug" (overflow checks on) or "release" (wrapping)
    fpc,                  \* position inside the call
    product,              \* result record of mul_6_6(self.limbs, rhs.limbs)
    product_r,            \* result record of mul_12_6(product, BARRET_FACTOR)
    product_r_shifted,    \* the 6-limb quotient estimate
    product_r_shifted_n,  \* result record of mul_6_6(product_r_shifted, ORDER)
    result,               \* [panic |-> BOOLEAN, limbs |-> ...] of Bls12Base::mul
    \* ---- gates/arithmetic.rs: one ArithmeticGate, its witness and evaluations
    index,                \* self.index of the gate
    constants,            \* the constants table, [gate -> [0..5 -> field value]]
    witness,              \* the partial witness, a function on a set of wires
    supplied,             \* the witness that was passed to generate
    generated,            \* what generate returned
    gpc,                  \* "fresh", "generated", "merged" or "assigned"
    right_wire_values,    \* the neighbouring rows handed to the evaluations
    below_wire_values,
    native_residuals,     \* what evaluate_unfiltered returned
    recursive_residuals,  \* what evaluate_unfiltered_recursively returned
    builder_ops,          \* the combinator calls made on the CircuitBuilder
    \* ---- witness generation for several gates at once
    gates,                \* the indices of the gates whose generators run
    start_witness,        \* the witness before any generator ran
    increments,           \* per gate, the increment returned and not yet merged
    wphase,               \* per gate: "idle", "generated" or "merged"
    \* ---- hash_to_curve.rs: one call of hash_u32_to_curve / hash_base_field_to_curve
    curve,                \* the curve's coefficients [A, B]
    entry,                \* which of the two functions was called
    seed,                 \* the seed as a base-field element
    security_bits,
    hash_i,               \* the loop counter i
    hpc,                  \* "idle", "loop" or "returned"
    hash_x,               \* x = outputs[0] of the latest iteration
    hash_y_neg,           \* y_neg of the latest iteration
    point,                \* the AffinePoint returned
    \* ---- plonk_recursion.rs: one call of recursive_verification_circuit
    degree_pow,
    rpc,                  \* position inside the call
    loop_i,               \* the counter of the loop being run
    builder,              \* the CircuitBuilder
    c_wires, c_z, c_t, l_i, r_i,   \* the locals that become the bundle's fields
    bundle                \* the RecursiveCircuit returned

fieldVars == <<a, b, profile, fpc, product, product_r, product_r_shifted,
               product_r_shifted_n, result>>

gateVars == <<index, supplied, generated, gpc, right_wire_values, below_wire_values,
              native_residuals, recursive_residuals, builder_ops>>

gateVarsButPc == <<index, supplied, generated, right_wire_values, below_wire_values,
                   native_residuals, recursive_residuals, builder_ops>>

tableVars == <<constants, witness>>

witnessVars == <<gates, start_witness, increments, wphase>>

hashVars == <<curve, entry, seed, security_bits, hash_i, hpc, hash_x, hash_y_neg, point>>

recVars == <<degree_pow, rpc, loop_i, builder, c_wires, c_z, c_t, l_i, r_i, bundle>>

vars == <<fieldVars, gateVars, tableVars, witnessVars, hashVars, recVars>>

nonFieldVars == <<gateVars, tableVars, witnessVars, hashVars, recVars>>

nonGateVars == <<fieldVars, hashVars, recVars>>

nonHashVars == <<fieldVars, gateVars, tableVars, witnessVars, recVars>>

nonRecVars == <<fieldVars, gateVars, tableVars, witnessVars, hashVars>>

\* the value of a variable that holds nothing yet
None == <<>>

-----------------------------------------------------------------------------
(* Bounds of the model *)

\* width of one limb in bits (u64 in the source, scaled)
LimbBits == 8

\* number of patterned operand arrays drawn as inputs besides the 0/max ones
NumPatterns == 4

\* the number of elements of C::ScalarField (the gates' field)
ScalarOrder == 3

\* the number of rows (gate indices) of the circuit
NumGates == 2

\* the number of elements of C::BaseField (the curve's field)
BaseOrder == 5

\* the largest u32 seed handed to hash_u32_to_curve
MaxSeed == 1

\* the number of iterations after which the model stops following the loop
MaxIter == 3

\* the largest degree_pow handed to recursive_verification_circuit
MaxDegreePow == 7

\* crate::NUM_CONSTANTS, crate::NUM_WIRES and
\* crate::QUOTIENT_POLYNOMIAL_DEGREE_MULTIPLIER: imported by
\* plonk_recursion.rs, their values are set elsewhere in the crate
NUM_CONSTANTS == 3

NUM_WIRES == 4

QUOTIENT_POLYNOMIAL_DEGREE_MULTIPLIER == 2

-----------------------------------------------------------------------------
(* field.rs: constants and fixed-width helpers *)

\* [u64; 6]: the number of limbs of a Bls12Base element
N == 6

RECURSIVE Pow2(_)
Pow2(n) == IF n = 0 THEN 1 ELSE 2 * Pow2(n - 1)

\* 2^64 at the scaled width: the number of u64 values
B == Pow2(LimbBits)

\* 2^128 at the scaled width: the number of u128 values
B2 == B * B

\* BARRET_K = 381 = 6 * 64 - 3: the bit length of ORDER
BARRET_K == N * LimbBits - 3

\* ORDER, little-endian.  At the scaled width the modulus is 2^BARRET_K - 55
\* (a prime for LimbBits = 8), which like the source's ORDER has exactly
\* BARRET_K bits.
ORDER ==
    [i \in 0..(N - 1) |->
        IF i = 0 THEN B - 55
        ELSE IF i = N - 1 THEN Pow2(LimbBits - 3) - 1
        ELSE B - 1]

\* BARRET_FACTOR = floor(4^BARRET_K / ORDER), little-endian (the source's
\* constant is exactly this quotient for its ORDER).  For ORDER = 2^K - 55
\* the quotient is 2^K + 55.
BARRET_FACTOR ==
    [i \in 0..(N - 1) |->
        IF i = 0 THEN 55
        ELSE IF i = N - 1 THEN Pow2(LimbBits - 3)
        ELSE 0]

\* Bls12Base::ZERO
ZERO == [i \in 0..(N - 1) |-> 0]

\* x | y on unsigned integers
RECURSIVE BitOr(_, _)
BitOr(x, y) ==
    IF x = 0 /\ y = 0 THEN 0
    ELSE (IF x % 2 = 1 \/ y % 2 = 1 THEN 1 ELSE 0) + 2 * BitOr(x \div 2, y \div 2)

\* mul_6_6's first loop with the high half assigned instead of added (the
\* slip present in mul_12_6)
RECURSIVE mul_6_6_products_assign(_, _, _)
mul_6_6_products_assign(x, y, st) ==
    IF st.t = N * N THEN st
    ELSE
        LET i == st.t \div N
            j == st.t % N
            a_i_b_j == x[i] * y[j]
            lo == st.acc128[i + j] + (a_i_b_j % B)
            acc1 == [st.acc128 EXCEPT ![i + j] = lo % B2]
            acc2 == [acc1 EXCEPT ![i + j + 1] = a_i_b_j \div B]
        IN  mul_6_6_products_assign(x, y,
                [t |-> st.t + 1,
                 acc128 |-> acc2,
                 acc_overflow |-> st.acc_overflow \/ lo >= B2])

\* mul_6_6's first loop: the step for the pair t = 6*i + j, then the rest
RECURSIVE mul_6_6_products(_, _, _)
mul_6_6_products(x, y, st) ==
    IF st.t = N * N THEN st
    ELSE
        LET i == st.t \div N
            j == st.t % N
            a_i_b_j == x[i] * y[j]
            lo == st.acc128[i + j] + (a_i_b_j % B)
            acc1 == [st.acc128 EXCEPT ![i + j] = lo % B2]
            hi == acc1[i + j + 1] + (a_i_b_j \div B)
            acc2 == [acc1 EXCEPT ![i + j + 1] = hi % B2]
        IN  mul_6_6_products(x, y,
                [t |-> st.t + 1,
                 acc128 |-> acc2,
                 acc_overflow |-> st.acc_overflow \/ lo >= B2 \/ hi >= B2])

\* mul_6_6's second loop, for i in 1..12
RECURSIVE mul_6_6_carries(_, _)
mul_6_6_carries(acc128, st) ==
    IF st.i = 2 * N THEN st
    ELSE
        LET i == st.i
            last_chunk_big == (acc128[i - 1] \div B) % B
            curr_chunk_small == acc128[i] % B
            addend == last_chunk_big + (IF st.carry THEN 1 ELSE 0)
            sum == curr_chunk_small + (addend % B)
            stored == st.acc[i] + (sum % B)
        IN  mul_6_6_carries(acc128,
                [i |-> i + 1,
                 acc |-> [st.acc EXCEPT ![i] = stored % B],
                 carry |-> sum >= B,
                 add_overflow |-> st.add_overflow \/ addend >= B \/ stored >= B])

\* fn mul_6_6(a: [u64; 6], b: [u64; 6]) -> [u64; 12].  An arithmetic overflow
\* panics in a debug build and wraps in a release build; assert!(!carry)
\* panics in both.
mul_6_6(x, y, bld) ==
    LET p == mul_6_6_products(x, y,
                [t |-> 0, acc128 |-> [k \in 0..(2 * N - 1) |-> 0], acc_overflow |-> FALSE])
        c == mul_6_6_carries(p.acc128,
                [i |-> 1, acc |-> [k \in 0..(2 * N - 1) |-> IF k = 0 THEN p.acc128[0] % B ELSE 0],
                 carry |-> FALSE, add_overflow |-> FALSE])
    IN  [limbs |-> c.acc,
         acc_overflow |-> p.acc_overflow,
         add_overflow |-> c.add_overflow,
         carry_out |-> c.carry,
         panic |-> c.carry \/ (bld = "debug" /\ (p.acc_overflow \/ c.add_overflow))]

\* mul_12_6's first loop: the high half is assigned, not added
RECURSIVE mul_12_6_products(_, _, _)
mul_12_6_products(x, y, st) ==
    IF st.t = 2 * N * N THEN st
    ELSE
        LET i == st.t \div N
            j == st.t % N
            a_i_b_j == x[i] * y[j]
            lo == st.acc128[i + j] + (a_i_b_j % B)
            acc1 == [st.acc128 EXCEPT ![i + j] = lo % B2]
            acc2 == [acc1 EXCEPT ![i + j + 1] = a_i_b_j \div B]
        IN  mul_12_6_products(x, y,
                [t |-> st.t + 1, acc128 |-> acc2, acc_overflow |-> st.acc_overflow \/ lo >= B2])

\* mul_12_6's second loop, for i in 1..18.  It reads acc (the u64 output
\* array), not acc128, and shifts a u64 right by 64: a shift by the full
\* width panics in a debug build and shifts by 64 % 64 = 0 in a release build.
RECURSIVE mul_12_6_carries(_)
mul_12_6_carries(st) ==
    IF st.i = 3 * N THEN st
    ELSE
        LET i == st.i
            last_chunk_big == st.acc[i - 1]
            curr_chunk_small == st.acc[i]
            addend == last_chunk_big + (IF st.carry THEN 1 ELSE 0)
            sum == curr_chunk_small + (addend % B)
            stored == st.acc[i] + (sum % B)
        IN  mul_12_6_carries(
                [i |-> i + 1,
                 acc |-> [st.acc EXCEPT ![i] = stored % B],
                 carry |-> sum >= B,
                 shift_overflow |-> TRUE,
                 add_overflow |-> st.add_overflow \/ addend >= B \/ stored >= B])

\* fn mul_12_6(a: [u64; 12], b: [u64; 6]) -> [u64; 18]
mul_12_6(x, y, bld) ==
    LET p == mul_12_6_products(x, y,
                [t |-> 0, acc128 |-> [k \in 0..(3 * N - 1) |-> 0], acc_overflow |-> FALSE])
        c == mul_12_6_carries(
                [i |-> 1, acc |-> [k \in 0..(3 * N - 1) |-> IF k = 0 THEN p.acc128[0] % B ELSE 0],
                 carry |-> FALSE, shift_overflow |-> FALSE, add_overflow |-> FALSE])
    IN  [limbs |-> c.acc,
         panic |-> bld = "debug"
                   /\ (p.acc_overflow \/ c.shift_overflow \/ c.add_overflow)]

\* the loop of Bls12Base::mul that fills product_r_shifted (lines 54-61):
\* every iteration reads the same two limbs of product_r
shift_product_r(pr) ==
    [i \in 0..(N - 1) |->
        LET shift_total_bits == BARRET_K * 2
            shift_words == shift_total_bits \div LimbBits
            shift_bits == shift_total_bits % LimbBits
        IN  BitOr(pr[shift_words] \div Pow2(shift_bits),
                  (pr[shift_words + 1] * Pow2(LimbBits - shift_bits)) % B)]

\* the limbs of product_r that the loop reads
shift_reads ==
    LET shift_words == (BARRET_K * 2) \div LimbBits
    IN  {shift_words, shift_words + 1}

\* fn sub_12x64(a, b) -> [u64; 12] { todo!() }: the call panics
sub_12x64(x, y) == [panic |-> TRUE, limbs |-> None]

\* lines 64-72 of Bls12Base::mul: subtract, assert the high limbs are zero,
\* keep the low six
reduce_tail(prod, qn) ==
    LET r == sub_12x64(prod, qn)
    IN  IF r.panic THEN [panic |-> TRUE, limbs |-> None]
        ELSE IF \E i \in N..(2 * N - 1) : r.limbs[i] # 0
             THEN [panic |-> TRUE, limbs |-> None]
        ELSE [panic |-> FALSE, limbs |-> [i \in 0..(N - 1) |-> r.limbs[i]]]

-----------------------------------------------------------------------------
(* Reference arithmetic on little-endian digit arrays (base B) *)

RECURSIVE SumTo(_, _)
SumTo(f, n) == IF n = 0 THEN 0 ELSE f[n - 1] + SumTo(f, n - 1)

\* the coefficient of B^k in the product of two digit arrays, before carrying
ColSum(x, lx, y, ly, k) ==
    SumTo([i \in 0..(lx - 1) |->
              IF k - i >= 0 /\ k - i < ly THEN x[i] * y[k - i] ELSE 0], lx)

RECURSIVE RefColumn(_, _, _, _, _)
RefColumn(x, lx, y, ly, k) ==
    IF k < 0 THEN 0
    ELSE ColSum(x, lx, y, ly, k) + (RefColumn(x, lx, y, ly, k - 1) \div B)

\* the lx+ly digits of int(x) * int(y)
IntProduct(x, lx, y, ly) ==
    [k \in 0..(lx + ly - 1) |-> RefColumn(x, lx, y, ly, k) % B]

\* int(x) < int(y) for two arrays of n digits
IntLess(x, y, n) ==
    \E i \in 0..(n - 1) :
        /\ x[i] < y[i]
        /\ \A j \in (i + 1)..(n - 1) : x[j] = y[j]

RECURSIVE RefBorrow(_, _, _)
RefBorrow(x, y, i) ==
    IF i < 0 THEN 0
    ELSE IF x[i] - y[i] - RefBorrow(x, y, i - 1) < 0 THEN 1 ELSE 0

\* int(x) - int(y) for int(x) >= int(y), n digits
IntSub(x, y, n) ==
    [i \in 0..(n - 1) |-> (x[i] - y[i] - RefBorrow(x, y, i - 1) + 2 * B) % B]

\* bit p of a digit array
BitAt(x, p) == (x[p \div LimbBits] \div Pow2(p % LimbBits)) % 2

\* 2 * int(r) + bit, n digits
IntDouble(r, bit, n) ==
    [i \in 0..(n - 1) |->
        (2 * r[i] + (IF i = 0 THEN bit ELSE r[i - 1] \div (B \div 2))) % B]

\* the first n values of f as a sequence
RECURSIVE DigitSeq(_, _)
DigitSeq(f, n) == IF n = 0 THEN <<>> ELSE Append(DigitSeq(f, n - 1), f[n - 1])

\* int(x) mod int(m) by binary long division from bit st.p down; m has n
\* digits and its top bit clear; st.r holds the remainder's digits
RECURSIVE IntModFrom(_, _, _, _)
IntModFrom(x, m, n, st) ==
    IF st.p < 0 THEN [i \in 0..(n - 1) |-> st.r[i + 1]]
    ELSE LET r == [i \in 0..(n - 1) |-> st.r[i + 1]]
             d == IntDouble(r, BitAt(x, st.p), n)
             s == IF IntLess(d, m, n) THEN d ELSE IntSub(d, m, n)
         IN  IntModFrom(x, m, n, [p |-> st.p - 1, r |-> DigitSeq(s, n)])

\* (int(x) * int(y)) mod int(ORDER) as N digits
IntMulMod(x, y) ==
    LET xy == DigitSeq(IntProduct(x, N, y, N), 2 * N)
    IN  IntModFrom([i \in 0..(2 * N - 1) |-> xy[i + 1]], ORDER, N,
                   [p |-> 2 * N * LimbBits - 1, r |-> DigitSeq(ZERO, N)])

\* bit p of an array of n digits, zero beyond its end
BitOrZero(x, n, p) == IF p < n * LimbBits THEN BitAt(x, p) ELSE 0

\* the value of the LimbBits bits of x that start at bit p
BitsFrom(x, n, p) ==
    SumTo([k \in 0..(LimbBits - 1) |-> BitOrZero(x, n, p + k) * Pow2(k)], LimbBits)

\* 0 <= int(x) < int(ORDER)
IsCanonical(x) == IntLess(x, ORDER, N)

-----------------------------------------------------------------------------
(* field.rs: the inputs and the steps of one call *)

Builds == {"debug", "release"}

\* patterned operands; the top limb stays below ORDER's, so they are canonical
Pattern(s) ==
    [i \in 0..(N - 1) |->
        IF i = N - 1 THEN s ELSE (s * 29 + i * 41 + s * i * 13) % B]

Operands ==
    [0..(N - 1) -> {0, 1, B - 1}] \cup {Pattern(s) : s \in 1..NumPatterns}

Multipliers ==
    {ZERO, [i \in 0..(N - 1) |-> B - 1], [i \in 0..(N - 1) |-> 1]}
        \cup {Pattern(s) : s \in 1..NumPatterns}

FieldIdle ==
    /\ a = None /\ b = None /\ profile = None /\ fpc = "idle"
    /\ product = None /\ product_r = None /\ product_r_shifted = None
    /\ product_r_shifted_n = None /\ result = None

FieldStart ==
    /\ a \in Operands
    /\ b \in Multipliers
    /\ profile \in Builds
    /\ fpc = "start"
    /\ product = None
    /\ product_r = None
    /\ product_r_shifted = None
    /\ product_r_shifted_n = None
    /\ result = None

\* a direct call of mul_6_6 on any two limb arrays (as tests::test_mul_6_6 does)
CallMul66 ==
    /\ fpc = "start"
    /\ product' = mul_6_6(a, b, profile)
    /\ fpc' = "mul_6_6_returned"
    /\ UNCHANGED <<a, b, profile, product_r, product_r_shifted, product_r_shifted_n, result>>
    /\ UNCHANGED nonFieldVars

\* Bls12Base::mul, line 47, on two field elements
MulWiden ==
    /\ fpc = "start"
    /\ IsCanonical(a) /\ IsCanonical(b)
    /\ product' = mul_6_6(a, b, profile)
    /\ IF product'.panic
       THEN fpc' = "done" /\ result' = [panic |-> TRUE, limbs |-> None]
       ELSE fpc' = "widened" /\ result' = result
    /\ UNCHANGED <<a, b, profile, product_r, product_r_shifted, product_r_shifted_n>>
    /\ UNCHANGED nonFieldVars

\* Bls12Base::mul, line 51
MulBarrett ==
    /\ fpc = "widened"
    /\ product_r' = mul_12_6(product.limbs, BARRET_FACTOR, profile)
    /\ IF product_r'.panic
       THEN fpc' = "done" /\ result' = [panic |-> TRUE, limbs |-> None]
       ELSE fpc' = "multiplied" /\ result' = result
    /\ UNCHANGED <<a, b, profile, product, product_r_shifted, product_r_shifted_n>>
    /\ UNCHANGED nonFieldVars

\* Bls12Base::mul, lines 54-61
MulShift ==
    /\ fpc = "multiplied"
    /\ product_r_shifted' = shift_product_r(product_r.limbs)
    /\ fpc' = "shifted"
    /\ UNCHANGED <<a, b, profile, product, product_r, product_r_shifted_n, result>>
    /\ UNCHANGED nonFieldVars

\* Bls12Base::mul, line 63
MulQuotientTimesOrder ==
    /\ fpc = "shifted"
    /\ product_r_shifted_n' = mul_6_6(product_r_shifted, ORDER, profile)
    /\ IF product_r_shifted_n'.panic
       THEN fpc' = "done" /\ result' = [panic |-> TRUE, limbs |-> None]
       ELSE fpc' = "estimated" /\ result' = result
    /\ UNCHANGED <<a, b, profile, product, product_r, product_r_shifted>>
    /\ UNCHANGED nonFieldVars

\* Bls12Base::mul, lines 64-72
MulReduce ==
    /\ fpc = "estimated"
    /\ result' = reduce_tail(product.limbs, product_r_shifted_n.limbs)
    /\ fpc' = "done"
    /\ UNCHANGED <<a, b, profile, product, product_r, product_r_shifted, product_r_shifted_n>>
    /\ UNCHANGED nonFieldVars

FieldNext ==
    \/ CallMul66
    \/ MulWiden
    \/ MulBarrett
    \/ MulShift
    \/ MulQuotientTimesOrder
    \/ MulReduce

\* Bls12Base::mul entered at line 53: product is a * b and product_r is an
\* 18-limb array whose limbs differ, the product of product and BARRET_FACTOR
ShiftStart ==
    /\ a \in Operands
    /\ b \in Multipliers
    /\ IsCanonical(a) /\ IsCanonical(b)
    /\ profile \in Builds
    /\ fpc = "multiplied"
    /\ product = mul_6_6(a, b, profile)
    /\ product_r = [limbs |-> IntProduct(product.limbs, 2 * N, BARRET_FACTOR, N),
                    panic |-> FALSE]
    /\ product_r_shifted = None
    /\ product_r_shifted_n = None
    /\ result = None

\* lines 53-72 of Bls12Base::mul
ShiftNext ==
    \/ MulShift
    \/ MulQuotientTimesOrder
    \/ MulReduce

-----------------------------------------------------------------------------
(* gates/arithmetic.rs: the field, wires, targets and the partial witness *)

\* the elements of C::ScalarField and its +, - and *
ScalarField == 0..(ScalarOrder - 1)

FAdd(x, y) == (x + y) % ScalarOrder

FSub(x, y) == (x - y + ScalarOrder) % ScalarOrder

FMul(x, y) == (x * y) % ScalarOrder

Gates == 0..(NumGates - 1)

WIRE_MULTIPLICAND_0 == 0

WIRE_MULTIPLICAND_1 == 1

WIRE_ADDEND == 2

WIRE_OUTPUT == 3

\* const PREFIX: &[bool] = &[true, false, false, true]
PREFIX == <<TRUE, FALSE, FALSE, TRUE>>

\* Wire { gate, input }
Wire(g, i) == [gate |-> g, input |-> i]

\* Target::Wire(wire)
TargetWire(w) == [kind |-> "Wire", wire |-> w]

\* PartialWitness::new()
PartialWitness_new == <<>>

\* PartialWitness::set_wire
set_wire(pw, w, v) == (w :> v) @@ pw

\* whether PartialWitness::get_wire finds a value
has_wire(pw, w) == w \in DOMAIN pw

\* PartialWitness::get_wire
get_wire(pw, w) == pw[w]

\* the caller's merge of a returned increment into the full witness
merge(pw, inc) == inc @@ pw

\* dependencies() with the output wire listed too
dependencies_with_output(idx) ==
    << TargetWire(Wire(idx, WIRE_MULTIPLICAND_0)),
       TargetWire(Wire(idx, WIRE_MULTIPLICAND_1)),
       TargetWire(Wire(idx, WIRE_ADDEND)),
       TargetWire(Wire(idx, WIRE_OUTPUT)) >>

\* fn dependencies(&self) -> Vec<Target>
dependencies(idx) ==
    << TargetWire(Wire(idx, WIRE_MULTIPLICAND_0)),
       TargetWire(Wire(idx, WIRE_MULTIPLICAND_1)),
       TargetWire(Wire(idx, WIRE_ADDEND)) >>

\* generate writing the first wire of the next row instead of its own output
generate_writes_next_row(idx, consts, wit) ==
    LET output_target == Wire((idx + 1) % NumGates, WIRE_MULTIPLICAND_0)
        const_0 == consts[idx][Len(PREFIX)]
        const_1 == consts[idx][Len(PREFIX) + 1]
        multiplicand_0 == get_wire(wit, Wire(idx, WIRE_MULTIPLICAND_0))
        multiplicand_1 == get_wire(wit, Wire(idx, WIRE_MULTIPLICAND_1))
        addend == get_wire(wit, Wire(idx, WIRE_ADDEND))
        output == FAdd(FMul(FMul(const_0, multiplicand_0), multiplicand_1),
                       FMul(const_1, addend))
    IN  [panic |-> FALSE, pw |-> set_wire(PartialWitness_new, output_target, output)]

\* fn generate(&self, constants, witness) -> PartialWitness.  Indexing past
\* the end of a slice and get_wire of an absent wire panic.
generate(idx, consts, wit) ==
    LET multiplicand_0_target == Wire(idx, WIRE_MULTIPLICAND_0)
        multiplicand_1_target == Wire(idx, WIRE_MULTIPLICAND_1)
        addend_target == Wire(idx, WIRE_ADDEND)
        output_target == Wire(idx, WIRE_OUTPUT)
    IN  IF \/ idx \notin DOMAIN consts
           \/ Len(PREFIX) + 1 \notin DOMAIN consts[idx]
           \/ ~has_wire(wit, multiplicand_0_target)
           \/ ~has_wire(wit, multiplicand_1_target)
           \/ ~has_wire(wit, addend_target)
        THEN [panic |-> TRUE, pw |-> None]
        ELSE
            LET const_0 == consts[idx][Len(PREFIX)]
                const_1 == consts[idx][Len(PREFIX) + 1]
                multiplicand_0 == get_wire(wit, multiplicand_0_target)
                multiplicand_1 == get_wire(wit, multiplicand_1_target)
                addend == get_wire(wit, addend_target)
                output == FAdd(FMul(FMul(const_0, multiplicand_0), multiplicand_1),
                               FMul(const_1, addend))
            IN  [panic |-> FALSE,
                 pw |-> set_wire(PartialWitness_new, output_target, output)]

\* evaluate_unfiltered adding the output instead of subtracting it
evaluate_unfiltered_adds_output(lc, lw, rw, bw) ==
    LET const_0 == lc[Len(PREFIX)]
        const_1 == lc[Len(PREFIX) + 1]
        computed_output == FAdd(FMul(FMul(const_0, lw[WIRE_MULTIPLICAND_0]),
                                     lw[WIRE_MULTIPLICAND_1]),
                                FMul(const_1, lw[WIRE_ADDEND]))
    IN  << FAdd(computed_output, lw[WIRE_OUTPUT]) >>

\* fn evaluate_unfiltered(local_constant_values, local_wire_values,
\*                        _right_wire_values, _below_wire_values) -> Vec
evaluate_unfiltered(lc, lw, rw, bw) ==
    LET const_0 == lc[Len(PREFIX)]
        const_1 == lc[Len(PREFIX) + 1]
        multiplicand_0 == lw[WIRE_MULTIPLICAND_0]
        multiplicand_1 == lw[WIRE_MULTIPLICAND_1]
        addend == lw[WIRE_ADDEND]
        output == lw[WIRE_OUTPUT]
        computed_output == FAdd(FMul(FMul(const_0, multiplicand_0), multiplicand_1),
                                FMul(const_1, addend))
    IN  << FSub(computed_output, output) >>

\* the CircuitBuilder combinators: each records the call and returns a target
\* that stands for the combination of its arguments
builder_mul_many(bld, ts) ==
    [builder |-> Append(bld, "mul_many"), target |-> [op |-> "mul_many", args |-> ts]]

builder_mul(bld, x, y) ==
    [builder |-> Append(bld, "mul"), target |-> [op |-> "mul", args |-> <<x, y>>]]

builder_add_many(bld, ts) ==
    [builder |-> Append(bld, "add_many"), target |-> [op |-> "add_many", args |-> ts]]

builder_sub(bld, x, y) ==
    [builder |-> Append(bld, "sub"), target |-> [op |-> "sub", args |-> <<x, y>>]]

\* the target standing for slot k of one of the arrays handed to the gate
InputTarget(array, k) == [op |-> "input", args |-> <<array, k>>]

\* evaluate_unfiltered_recursively with the subtraction's operands swapped
evaluate_unfiltered_recursively_swapped(bld, lc, lw, rw, bw) ==
    LET p == builder_mul_many(bld, << lc[Len(PREFIX)], lw[WIRE_MULTIPLICAND_0],
                                      lw[WIRE_MULTIPLICAND_1] >>)
        q == builder_mul(p.builder, lc[Len(PREFIX) + 1], lw[WIRE_ADDEND])
        r == builder_add_many(q.builder, << p.target, q.target >>)
        t == builder_sub(r.builder, lw[WIRE_OUTPUT], r.target)
    IN  [builder |-> t.builder, residuals |-> << t.target >>]

\* fn evaluate_unfiltered_recursively(builder, local_constant_values,
\*         local_wire_values, _right_wire_values, _below_wire_values) -> Vec<Target>
evaluate_unfiltered_recursively(bld, lc, lw, rw, bw) ==
    LET const_0 == lc[Len(PREFIX)]
        const_1 == lc[Len(PREFIX) + 1]
        multiplicand_0 == lw[WIRE_MULTIPLICAND_0]
        multiplicand_1 == lw[WIRE_MULTIPLICAND_1]
        addend == lw[WIRE_ADDEND]
        output == lw[WIRE_OUTPUT]
        product_term == builder_mul_many(bld, << const_0, multiplicand_0, multiplicand_1 >>)
        addend_term == builder_mul(product_term.builder, const_1, addend)
        computed_output == builder_add_many(addend_term.builder,
                               << product_term.target, addend_term.target >>)
        difference == builder_sub(computed_output.builder, computed_output.target, output)
    IN  [builder |-> difference.builder, residuals |-> << difference.target >>]

\* the value of a target when each input target takes the value env gives it
\* and the combinators are the field's product, sum and difference
RECURSIVE TargetValue(_, _)
RECURSIVE ProductOfTargets(_, _, _)
RECURSIVE SumOfTargets(_, _, _)
ProductOfTargets(ts, n, env) ==
    IF n = 0 THEN 1 % ScalarOrder
    ELSE FMul(ProductOfTargets(ts, n - 1, env), TargetValue(ts[n], env))

SumOfTargets(ts, n, env) ==
    IF n = 0 THEN 0
    ELSE FAdd(SumOfTargets(ts, n - 1, env), TargetValue(ts[n], env))

TargetValue(t, env) ==
    CASE t.op = "input" -> env[t.args[1]][t.args[2]]
      [] t.op = "mul" -> FMul(TargetValue(t.args[1], env), TargetValue(t.args[2], env))
      [] t.op = "sub" -> FSub(TargetValue(t.args[1], env), TargetValue(t.args[2], env))
      [] t.op = "mul_many" -> ProductOfTargets(t.args, Len(t.args), env)
      [] t.op = "add_many" -> SumOfTargets(t.args, Len(t.args), env)

\* the input targets a target is built from
RECURSIVE TargetInputs(_)
TargetInputs(t) ==
    IF t.op = "input" THEN {t.args}
    ELSE UNION {TargetInputs(t.args[k]) : k \in 1..Len(t.args)}

-----------------------------------------------------------------------------
(* gates/arithmetic.rs: one gate: its inputs and the calls made on it *)

\* the number of constants of a row: the prefix and the two coefficients
RowConstants == 0..(Len(PREFIX) + 1)

\* the wires of a row that the gate uses
RowWires == 0..WIRE_OUTPUT

\* a row of another gate: values that differ from slot to slot
OtherRow(h) == [k \in RowConstants |-> (h + 2 * k + 1) % ScalarOrder]

\* a constants table whose row idx holds the prefix bits (or, with flip,
\* other values in the prefix slots) and then const_0 and const_1
Table(idx, flip, c0, c1) ==
    [h \in Gates |->
        IF h # idx THEN OtherRow(h)
        ELSE [k \in RowConstants |->
                 IF k = Len(PREFIX) THEN c0
                 ELSE IF k = Len(PREFIX) + 1 THEN c1
                 ELSE IF flip THEN (k + 2) % ScalarOrder
                 ELSE IF PREFIX[k + 1] THEN 1 % ScalarOrder ELSE 0]]

\* a witness that holds the three dependency wires of gate idx and all four
\* wires of every other gate
InputWitness(idx, m0, m1, ad) ==
    [w \in {Wire(g, i) : g \in Gates, i \in RowWires}
             \ {Wire(idx, WIRE_OUTPUT)} |->
        IF w.gate # idx THEN (w.gate + w.input + 1) % ScalarOrder
        ELSE IF w.input = WIRE_MULTIPLICAND_0 THEN m0
        ELSE IF w.input = WIRE_MULTIPLICAND_1 THEN m1
        ELSE ad]

\* the two neighbouring rows handed to an evaluation
NeighbourRows ==
    { << [i \in RowWires |-> 0], [i \in RowWires |-> 0] >>,
      << [i \in RowWires |-> 1 % ScalarOrder], [i \in RowWires |-> (i + 1) % ScalarOrder] >> }

\* the row of wire values of gate idx in a witness
LocalWires(pw, idx) == [i \in RowWires |-> get_wire(pw, Wire(idx, i))]

TableIdle == constants = None /\ witness = None

WitnessIdle ==
    /\ gates = None /\ start_witness = None /\ increments = None /\ wphase = None

GateIdle ==
    /\ index = None /\ supplied = None /\ generated = None /\ gpc = "idle"
    /\ right_wire_values = None /\ below_wire_values = None
    /\ native_residuals = None /\ recursive_residuals = None /\ builder_ops = None

GateStart ==
    /\ index \in Gates
    /\ \E flip \in BOOLEAN, c0 \in ScalarField, c1 \in ScalarField :
           constants = Table(index, flip, c0, c1)
    /\ \E m0 \in ScalarField, m1 \in ScalarField, ad \in ScalarField :
           witness = InputWitness(index, m0, m1, ad)
    /\ supplied = None
    /\ generated = None
    /\ gpc = "fresh"
    /\ right_wire_values = None
    /\ below_wire_values = None
    /\ native_residuals = None
    /\ recursive_residuals = None
    /\ builder_ops = << >>

\* the witness generator of the gate runs on the witness
Generate ==
    /\ gpc = "fresh"
    /\ supplied' = witness
    /\ generated' = generate(index, constants, witness)
    /\ gpc' = "generated"
    /\ UNCHANGED <<index, right_wire_values, below_wire_values, native_residuals,
                   recursive_residuals, builder_ops>>
    /\ UNCHANGED <<tableVars, witnessVars, nonGateVars>>

\* the caller merges the returned increment into the witness
Merge ==
    /\ gpc = "generated"
    /\ ~generated.panic
    /\ witness' = merge(witness, generated.pw)
    /\ gpc' = "merged"
    /\ UNCHANGED <<constants, gateVarsButPc, witnessVars, nonGateVars>>

\* the output wire is given a value that does not come from generate
AssignOutput ==
    /\ gpc = "fresh"
    /\ \E v \in ScalarField :
           witness' = set_wire(witness, Wire(index, WIRE_OUTPUT), v)
    /\ gpc' = "assigned"
    /\ UNCHANGED <<constants, gateVarsButPc, witnessVars, nonGateVars>>

\* evaluate_unfiltered is called on the gate's row
EvaluateUnfiltered ==
    /\ gpc \in {"merged", "assigned"}
    /\ native_residuals = None
    /\ \E rows \in NeighbourRows :
           /\ right_wire_values' = rows[1]
           /\ below_wire_values' = rows[2]
           /\ native_residuals' =
                  evaluate_unfiltered(constants[index], LocalWires(witness, index),
                                      rows[1], rows[2])
    /\ UNCHANGED <<index, supplied, generated, gpc, recursive_residuals, builder_ops>>
    /\ UNCHANGED <<tableVars, witnessVars, nonGateVars>>

\* evaluate_unfiltered_recursively is called on targets for the same row
EvaluateUnfilteredRecursively ==
    /\ gpc \in {"merged", "assigned"}
    /\ recursive_residuals = None
    /\ LET r == evaluate_unfiltered_recursively(builder_ops,
                    [k \in RowConstants |-> InputTarget("local_constant", k)],
                    [i \in RowWires |-> InputTarget("local_wire", i)],
                    [i \in RowWires |-> InputTarget("right_wire", i)],
                    [i \in RowWires |-> InputTarget("below_wire", i)])
       IN  /\ recursive_residuals' = r.residuals
           /\ builder_ops' = r.builder
    /\ UNCHANGED <<index, supplied, generated, gpc, right_wire_values,
                   below_wire_values, native_residuals>>
    /\ UNCHANGED <<tableVars, witnessVars, nonGateVars>>

GateNext ==
    \/ Generate
    \/ Merge
    \/ AssignOutput
    \/ EvaluateUnfiltered
    \/ EvaluateUnfilteredRecursively

-----------------------------------------------------------------------------
(* gates/arithmetic.rs: the generators of several gates run side by side *)

\* the coefficient and dependency values a gate may be given
SampleInputs ==
    { << 1 % ScalarOrder, 1 % ScalarOrder, 1 % ScalarOrder, 1 % ScalarOrder, 1 % ScalarOrder >>,
      << ScalarOrder - 1, 1 % ScalarOrder, 2 % ScalarOrder, ScalarOrder - 1, 0 >>,
      << 0, ScalarOrder - 1, 1 % ScalarOrder, 1 % ScalarOrder, ScalarOrder - 1 >>,
      << 2 % ScalarOrder, 2 % ScalarOrder, ScalarOrder - 1, ScalarOrder - 1, 1 % ScalarOrder >> }

\* the table and the starting witness for a choice of inputs per gate
SampleTable(in) ==
    [h \in Gates |->
        [k \in RowConstants |->
            IF k = Len(PREFIX) THEN in[h][1]
            ELSE IF k = Len(PREFIX) + 1 THEN in[h][2]
            ELSE IF PREFIX[k + 1] THEN 1 % ScalarOrder ELSE 0]]

SampleWitness(gs, in) ==
    [w \in {Wire(g, i) : g \in gs, i \in 0..WIRE_ADDEND} |-> in[w.gate][w.input + 3]]

WitnessStart ==
    /\ gates \in (SUBSET Gates) \ {{}}
    /\ \E in \in [Gates -> SampleInputs] :
           /\ constants = SampleTable(in)
           /\ witness = SampleWitness(gates, in)
    /\ start_witness = witness
    /\ increments = [g \in gates |-> None]
    /\ wphase = [g \in gates |-> "idle"]

\* the generator of gate g reads the witness as it is now
RunGenerate(g) ==
    /\ wphase[g] = "idle"
    /\ increments' = [increments EXCEPT ![g] = generate(g, constants, witness)]
    /\ wphase' = [wphase EXCEPT ![g] = "generated"]
    /\ UNCHANGED <<gates, start_witness, tableVars, gateVars, nonGateVars>>

\* the increment of gate g is merged into the witness
MergeIncrement(g) ==
    /\ wphase[g] = "generated"
    /\ ~increments[g].panic
    /\ witness' = merge(witness, increments[g].pw)
    /\ wphase' = [wphase EXCEPT ![g] = "merged"]
    /\ UNCHANGED <<gates, start_witness, increments, constants, gateVars, nonGateVars>>

WitnessNext ==
    \/ \E g \in gates : RunGenerate(g)
    \/ \E g \in gates : MergeIncrement(g)

-----------------------------------------------------------------------------
(* hash_to_curve.rs *)

\* the elements of C::BaseField and its operations
BaseField == 0..(BaseOrder - 1)

BAdd(x, y) == (x + y) % BaseOrder

BMul(x, y) == (x * y) % BaseOrder

BNeg(x) == (BaseOrder - x) % BaseOrder

cube(x) == BMul(BMul(x, x), x)

\* Field::from_canonical_u32
from_canonical_u32(n) == n % BaseOrder

\* the values square_root may return for c: Some(y) with y * y = c, or None
\* when c has no square root
square_roots(c) == {y \in BaseField : BMul(y, y) = c}

\* what rescue_sponge(inputs, 2, security_bits) may return: two field elements
sponge_outputs == [1..2 -> BaseField]

\* outputs[1].to_canonical_bool_vec()[0]: the lowest bit of the canonical value
lowest_bit(v) == v % 2 = 1

\* AffinePoint::nonzero(x, y)
AffinePoint_nonzero(px, py) == [x |-> px, y |-> py, zero |-> FALSE]

SecurityLevels == {80, 128}

\* the square candidate with x squared instead of cubed
square_candidate_of_square(px, A, B_) == BAdd(BAdd(BMul(px, px), BMul(A, px)), B_)

\* line 23: x.cube() + C::A * x + C::B
square_candidate_of(px, A, B_) == BAdd(BAdd(cube(px), BMul(A, px)), B_)

\* lines 24-28: negate y when y_neg is set and build the point
returned_point(px, y, y_neg) == AffinePoint_nonzero(px, IF y_neg THEN BNeg(y) ELSE y)

HashIdle ==
    /\ curve = None /\ entry = None /\ seed = None /\ security_bits = None
    /\ hash_i = None /\ hpc = "idle" /\ hash_x = None /\ hash_y_neg = None
    /\ point = None

HashStart ==
    /\ curve \in [A : BaseField, B : BaseField]
    /\ entry = None /\ seed = None /\ security_bits = None
    /\ hash_i = None /\ hpc = "new" /\ hash_x = None /\ hash_y_neg = None
    /\ point = None

\* hash_u32_to_curve(seed, security_bits): lines 3-6, up to the loop
CallHashU32 ==
    /\ hpc = "new"
    /\ \E s \in 0..MaxSeed, bits \in SecurityLevels :
           /\ seed' = from_canonical_u32(s)
           /\ security_bits' = bits
    /\ entry' = "hash_u32_to_curve"
    /\ hash_i' = 0
    /\ hpc' = "loop"
    /\ UNCHANGED <<curve, hash_x, hash_y_neg, point, nonHashVars>>

\* hash_base_field_to_curve(seed, security_bits) called directly
CallHashBaseField ==
    /\ hpc = "new"
    /\ \E s \in BaseField, bits \in SecurityLevels :
           /\ seed' = s
           /\ security_bits' = bits
    /\ entry' = "hash_base_field_to_curve"
    /\ hash_i' = 0
    /\ hpc' = "loop"
    /\ UNCHANGED <<curve, hash_x, hash_y_neg, point, nonHashVars>>

\* one pass through the loop body, lines 15-31
HashIterate ==
    /\ hpc = "loop"
    /\ hash_i < MaxIter
    /\ \E outputs \in sponge_outputs :
           LET px == outputs[1]
               y_neg == lowest_bit(outputs[2])
               square_candidate == square_candidate_of(px, curve.A, curve.B)
           IN  /\ hash_x' = px
               /\ hash_y_neg' = y_neg
               /\ IF square_roots(square_candidate) # {}
                  THEN /\ \E y \in square_roots(square_candidate) :
                              point' = returned_point(px, y, y_neg)
                       /\ hpc' = "returned"
                       /\ hash_i' = hash_i
                  ELSE /\ point' = point
                       /\ hpc' = "loop"
                       /\ hash_i' = hash_i + 1
    /\ UNCHANGED <<curve, entry, seed, security_bits, nonHashVars>>

HashNext ==
    \/ CallHashU32
    \/ CallHashBaseField
    \/ HashIterate

-----------------------------------------------------------------------------
(* plonk_recursion.rs *)

\* CircuitBuilder::new()
CircuitBuilder_new == [public_inputs |-> 0, circuit_inputs |-> 0, calls |-> << >>]

\* CircuitBuilder::add_public_inputs(n): n fresh public-input targets
add_public_inputs(bld, n) ==
    [builder |-> [bld EXCEPT !.public_inputs = @ + n,
                             !.calls = Append(@, "add_public_inputs")],
     targets |-> [k \in 1..n |-> [public_input |-> bld.public_inputs + k - 1]]]

\* CircuitBuilder::add_public_input(): one fresh public-input target
add_public_input(bld) ==
    [builder |-> [bld EXCEPT !.public_inputs = @ + 1,
                             !.calls = Append(@, "add_public_input")],
     target |-> [public_input |-> bld.public_inputs]]

\* CircuitBuilder::add_circuit_input(): one fresh circuit input
add_circuit_input(bld) ==
    [builder |-> [bld EXCEPT !.circuit_inputs = @ + 1,
                             !.calls = Append(@, "add_circuit_input")],
     input |-> [circuit_input |-> bld.circuit_inputs]]

\* CircuitBuilder::build(): the finished circuit
build(bld) ==
    [builder |-> [bld EXCEPT !.calls = Append(@, "build")],
     circuit |-> [public_inputs |-> bld.public_inputs,
                  circuit_inputs |-> bld.circuit_inputs]]

\* lines 25-30: the public inputs, in order
allocate_public_inputs(bld) ==
    LET inner_o_constants == add_public_inputs(bld, NUM_CONSTANTS)
        inner_o_wires == add_public_inputs(inner_o_constants.builder, NUM_WIRES)
        inner_o_z == add_public_input(inner_o_wires.builder)
        inner_o_t == add_public_inputs(inner_o_z.builder,
                                       QUOTIENT_POLYNOMIAL_DEGREE_MULTIPLIER)
        inner_u == add_public_inputs(inner_o_t.builder, degree_pow)
        inner_pi_hash == add_public_input(inner_u.builder)
    IN  inner_pi_hash.builder

\* the body of the last loop pushing one circuit input onto both vectors
push_l_r_shared(bld, l, r) ==
    LET left == add_circuit_input(bld)
    IN  [builder |-> left.builder, l_i |-> Append(l, left.input),
         r_i |-> Append(r, left.input)]

\* lines 50-51: the body of the last loop
push_l_r(bld, l, r) ==
    LET left == add_circuit_input(bld)
        right == add_circuit_input(left.builder)
    IN  [builder |-> right.builder, l_i |-> Append(l, left.input),
         r_i |-> Append(r, right.input)]

\* line 34: for _i in 0..NUM_WIRES
wire_loop_runs(k) == k < NUM_WIRES

RecIdle ==
    /\ degree_pow = None /\ rpc = "idle" /\ loop_i = None /\ builder = None
    /\ c_wires = None /\ c_z = None /\ c_t = None /\ l_i = None /\ r_i = None
    /\ bundle = None

RecStart ==
    /\ degree_pow \in 0..MaxDegreePow
    /\ rpc = "start"
    /\ loop_i = 0
    /\ builder = None
    /\ c_wires = None /\ c_z = None /\ c_t = None /\ l_i = None /\ r_i = None
    /\ bundle = None

\* line 20
NewBuilder ==
    /\ rpc = "start"
    /\ builder' = CircuitBuilder_new
    /\ rpc' = "public_inputs"
    /\ UNCHANGED <<degree_pow, loop_i, c_wires, c_z, c_t, l_i, r_i, bundle, nonRecVars>>

\* lines 25-30 and line 33
AllocatePublicInputs ==
    /\ rpc = "public_inputs"
    /\ builder' = allocate_public_inputs(builder)
    /\ c_wires' = << >>
    /\ loop_i' = 0
    /\ rpc' = "c_wires"
    /\ UNCHANGED <<degree_pow, c_z, c_t, l_i, r_i, bundle, nonRecVars>>

\* lines 34-36: one pass of the loop
PushWire ==
    /\ rpc = "c_wires"
    /\ wire_loop_runs(loop_i)
    /\ LET r == add_circuit_input(builder)
       IN  builder' = r.builder /\ c_wires' = Append(c_wires, r.input)
    /\ loop_i' = loop_i + 1
    /\ UNCHANGED <<degree_pow, rpc, c_z, c_t, l_i, r_i, bundle, nonRecVars>>

\* lines 39 and 42, once the loop above is over
CommitZ ==
    /\ rpc = "c_wires"
    /\ ~wire_loop_runs(loop_i)
    /\ LET r == add_circuit_input(builder)
       IN  builder' = r.builder /\ c_z' = r.input
    /\ c_t' = << >>
    /\ loop_i' = 0
    /\ rpc' = "c_t"
    /\ UNCHANGED <<degree_pow, c_wires, l_i, r_i, bundle, nonRecVars>>

\* lines 43-45: one pass of the loop
PushQuotient ==
    /\ rpc = "c_t"
    /\ loop_i < QUOTIENT_POLYNOMIAL_DEGREE_MULTIPLIER
    /\ LET r == add_circuit_input(builder)
       IN  builder' = r.builder /\ c_t' = Append(c_t, r.input)
    /\ loop_i' = loop_i + 1
    /\ UNCHANGED <<degree_pow, rpc, c_wires, c_z, l_i, r_i, bundle, nonRecVars>>

\* lines 47-48, once the loop above is over
StartHalo ==
    /\ rpc = "c_t"
    /\ ~(loop_i < QUOTIENT_POLYNOMIAL_DEGREE_MULTIPLIER)
    /\ l_i' = << >>
    /\ r_i' = << >>
    /\ loop_i' = 0
    /\ rpc' = "l_r"
    /\ UNCHANGED <<degree_pow, builder, c_wires, c_z, c_t, bundle, nonRecVars>>

\* lines 49-52: one pass of the loop
PushLeftRight ==
    /\ rpc = "l_r"
    /\ loop_i < degree_pow
    /\ LET r == push_l_r(builder, l_i, r_i)
       IN  builder' = r.builder /\ l_i' = r.l_i /\ r_i' = r.r_i
    /\ loop_i' = loop_i + 1
    /\ UNCHANGED <<degree_pow, rpc, c_wires, c_z, c_t, bundle, nonRecVars>>

\* lines 54-62, once the loop above is over
BuildAndReturn ==
    /\ rpc = "l_r"
    /\ ~(loop_i < degree_pow)
    /\ LET r == build(builder)
       IN  /\ builder' = r.builder
           /\ bundle' = [c_wires |-> c_wires, c_z |-> c_z, c_t |-> c_t,
                         l_i |-> l_i, r_i |-> r_i, circuit |-> r.circuit]
    /\ rpc' = "returned"
    /\ UNCHANGED <<degree_pow, loop_i, c_wires, c_z, c_t, l_i, r_i, nonRecVars>>

RecNext ==
    \/ NewBuilder
    \/ AllocatePublicInputs
    \/ PushWire
    \/ CommitZ
    \/ PushQuotient
    \/ StartHalo
    \/ PushLeftRight
    \/ BuildAndReturn

-----------------------------------------------------------------------------
(* The specifications *)

FieldInit == FieldStart /\ GateIdle /\ TableIdle /\ WitnessIdle /\ HashIdle /\ RecIdle

SpecField == FieldInit /\ [][FieldNext]_vars

ShiftInit == ShiftStart /\ GateIdle /\ TableIdle /\ WitnessIdle /\ HashIdle /\ RecIdle

SpecShift == ShiftInit /\ [][ShiftNext]_vars

GateInit == FieldIdle /\ GateStart /\ WitnessIdle /\ HashIdle /\ RecIdle

SpecGate == GateInit /\ [][GateNext]_vars

WitnessInit == FieldIdle /\ GateIdle /\ WitnessStart /\ HashIdle /\ RecIdle

SpecWitness == WitnessInit /\ [][WitnessNext]_vars

HashInit == FieldIdle /\ GateIdle /\ TableIdle /\ WitnessIdle /\ HashStart /\ RecIdle

SpecHash == HashInit /\ [][HashNext]_vars

RecInit == FieldIdle /\ GateIdle /\ TableIdle /\ WitnessIdle /\ HashIdle /\ RecStart

SpecRec == RecInit /\ [][RecNext]_vars


-----------------------------------------------------------------------------
(* Claims about field.rs, checked under SpecField *)

\* C1: for canonical a and b, Bls12Base::mul returns without aborting the
\* canonical element whose limbs represent (int(a) * int(b)) mod int(ORDER).
C1_MulReturnsProductModOrder ==
    fpc = "done" =>
        /\ ~result.panic
        /\ IsCanonical(result.limbs)
        /\ result.limbs = IntMulMod(a, b)

\* C2: for every pair of 6-limb arrays, mul_6_6 returns the 12 limbs of the
\* exact product; no u128 accumulator overflows, last_chunk_big + carry does
\* not overflow a u64, and assert!(!carry) does not fail.
C2_Mul66Exact ==
    /\ product # None =>
          /\ ~product.panic
          /\ ~product.acc_overflow
          /\ ~product.add_overflow
          /\ ~product.carry_out
          /\ product.limbs = IntProduct(a, N, b, N)
    /\ product_r_shifted_n # None =>
          /\ ~product_r_shifted_n.panic
          /\ ~product_r_shifted_n.acc_overflow
          /\ ~product_r_shifted_n.add_overflow
          /\ ~product_r_shifted_n.carry_out
          /\ product_r_shifted_n.limbs = IntProduct(product_r_shifted, N, ORDER, N)

\* C2 witness: mul_6_6 has returned for two all-ones-bits arrays (every limb
\* product and every column sum is as large as it can be).
C2_Witness ==
    /\ fpc = "mul_6_6_returned"
    /\ \A i \in 0..(N - 1) : a[i] = B - 1 /\ b[i] = B - 1
    /\ product.limbs[2 * N - 1] = B - 1

\* C9: mul_12_6 returns the 18 limbs of the exact product of its arguments.
C9_Mul126Exact ==
    product_r # None =>
        /\ ~product_r.panic
        /\ product_r.limbs = IntProduct(product.limbs, 2 * N, BARRET_FACTOR, N)

-----------------------------------------------------------------------------
(* Claims about gates/arithmetic.rs, checked under SpecGate and SpecWitness *)

\* const_0 * multiplicand_0 * multiplicand_1 + const_1 * addend, in the integers
\* and then reduced
ExpectedOutput(row, pw, idx) ==
    (row[4] * pw[Wire(idx, 0)] * pw[Wire(idx, 1)] + row[5] * pw[Wire(idx, 2)])
        % ScalarOrder

\* a row with every prefix slot changed
OtherPrefix(row) ==
    [k \in DOMAIN row |-> IF k < Len(PREFIX) THEN (row[k] + 1) % ScalarOrder ELSE row[k]]

\* a table with every entry changed but const_0 and const_1 of row idx
OtherTable(tbl, idx) ==
    [h \in DOMAIN tbl |->
        IF h = idx THEN OtherPrefix(tbl[h])
        ELSE [k \in DOMAIN tbl[h] |-> (tbl[h][k] + 1) % ScalarOrder]]

\* a partial witness cut down to the wires in ws
Restrict(pw, ws) == [w \in (DOMAIN pw) \cap ws |-> pw[w]]

\* the wires among a sequence of targets
WiresOf(ts) == {ts[k].wire : k \in 1..Len(ts)}

\* the values the input targets stand for in the current state
EvaluationInputs ==
    [local_constant |-> constants[index],
     local_wire |-> LocalWires(witness, index),
     right_wire |-> right_wire_values,
     below_wire |-> below_wire_values]

\* C3: the one residual of evaluate_unfiltered equals the value of the one
\* target of evaluate_unfiltered_recursively under the field interpretation
\* of the combinators; both read constants 4 and 5 and wires 0..3 only, and
\* neither depends on the right or below rows.
C3_NativeEqualsRecursive ==
    (native_residuals # None /\ recursive_residuals # None) =>
        /\ Len(native_residuals) = 1
        /\ Len(recursive_residuals) = 1
        /\ native_residuals[1] = TargetValue(recursive_residuals[1], EvaluationInputs)
        /\ TargetInputs(recursive_residuals[1])
               = {<<"local_constant", 4>>, <<"local_constant", 5>>}
                 \cup {<<"local_wire", i>> : i \in 0..3}
        /\ \A rows \in NeighbourRows :
               evaluate_unfiltered(OtherPrefix(constants[index]),
                                   LocalWires(witness, index), rows[1], rows[2])
                   = native_residuals

\* C3 witness: both evaluations have run on a row whose output wire was
\* assigned freely and whose residual is not zero.
C3_Witness ==
    /\ gpc = "assigned"
    /\ native_residuals # None /\ recursive_residuals # None
    /\ native_residuals[1] # 0
    /\ constants[index][4] # 0 /\ constants[index][5] # 0
    /\ right_wire_values[0] # 0

\* C4: with the output wire set by generate, evaluate_unfiltered returns
\* exactly one residual and it is zero; and the residual is zero only when
\* wire 3 equals const_0 * multiplicand_0 * multiplicand_1 + const_1 * addend.
C4_GeneratedOutputSatisfiesGate ==
    native_residuals # None =>
        /\ gpc = "merged" => native_residuals = << 0 >>
        /\ Len(native_residuals) = 1
        /\ native_residuals[1] = 0 =>
               witness[Wire(index, 3)] = ExpectedOutput(constants[index], witness, index)

\* C4 witness: the generated output of the last gate was merged and the row
\* evaluated, with a product term and an addend term that are both not zero.
C4_Witness ==
    /\ gpc = "merged"
    /\ native_residuals # None
    /\ index = NumGates - 1
    /\ constants[index][4] # 0 /\ witness[Wire(index, 0)] # 0 /\ witness[Wire(index, 1)] # 0
    /\ constants[index][5] # 0 /\ witness[Wire(index, 2)] # 0

\* C7: generate leaves the supplied witness unchanged and returns a partial
\* witness that assigns wire (g, 3) and nothing else; it reads wires (g, 0),
\* (g, 1), (g, 2) of the supplied witness, which are the targets dependencies()
\* returns, and no others; and it reads constants[g][4] and constants[g][5]
\* and no others.
C7_GenerateFrame ==
    gpc = "generated" =>
        LET deps == dependencies(index)
        IN  /\ witness = supplied
            /\ ~generated.panic
            /\ DOMAIN generated.pw = {Wire(index, 3)}
            /\ \A k \in 1..Len(deps) : deps[k].kind = "Wire"
            /\ WiresOf(deps) = {Wire(index, 0), Wire(index, 1), Wire(index, 2)}
            /\ generate(index, constants, Restrict(supplied, WiresOf(deps))) = generated
            /\ \A w \in WiresOf(deps) :
                   generate(index, constants, Restrict(supplied, (DOMAIN supplied) \ {w})).panic
            /\ generate(index, OtherTable(constants, index), supplied) = generated

\* C7 witness: generate has returned for the last gate with an output that
\* is not zero, from a witness that also holds other gates' wires.
C7_Witness ==
    /\ gpc = "generated"
    /\ index = NumGates - 1
    /\ generated.pw[Wire(index, 3)] # 0
    /\ Wire(0, 3) \in DOMAIN supplied

\* the wires a gate's generator depends on
DependencyWires(g) == WiresOf(dependencies(g))

\* the witness once every gate of gs has its output
FinalWitness(gs) ==
    [w \in (DOMAIN start_witness) \cup {Wire(g, 3) : g \in gs} |->
        IF w \in DOMAIN start_witness THEN start_witness[w]
        ELSE ExpectedOutput(constants[w.gate], start_witness, w.gate)]

\* C8: for gates with distinct indices whose dependency wires are present,
\* every order of running the generators and merging their increments ends in
\* the same witness; no two gates write the same wire, and no gate writes a
\* wire that a generator reads.
C8_GenerationOrderIrrelevant ==
    /\ \A g \in gates :
          increments[g] # None =>
              /\ ~increments[g].panic
              /\ \A h \in gates :
                    /\ (DOMAIN increments[g].pw) \cap DependencyWires(h) = {}
                    /\ (h # g /\ increments[h] # None) =>
                          (DOMAIN increments[g].pw) \cap (DOMAIN increments[h].pw) = {}
    /\ (\A g \in gates : wphase[g] = "merged") => witness = FinalWitness(gates)

\* C8 witness: every gate of the circuit ran its generator, one of them after
\* another gate's increment was already merged, and all increments are merged.
C8_Witness ==
    /\ gates = Gates
    /\ \A g \in gates : wphase[g] = "merged"
    /\ \E g \in gates : witness[Wire(g, 3)] # 0

-----------------------------------------------------------------------------
(* Claims about hash_to_curve.rs, checked under SpecHash *)

\* C5: whenever hash_base_field_to_curve (or hash_u32_to_curve through it)
\* returns, the point (x, y) satisfies y*y = x*x*x + A*x + B in the base
\* field, x being the first sponge output of the iteration that returned,
\* whether or not the sign bit made the code negate y.
C5_ReturnedPointOnCurve ==
    hpc = "returned" =>
        /\ (point.y * point.y) % BaseOrder
               = (point.x * point.x * point.x + curve.A * point.x + curve.B) % BaseOrder
        /\ point.x = hash_x

\* C5 witness: the call returned after at least one rejected candidate, with
\* the sign bit set and a y that negation changes.
C5_Witness ==
    /\ hpc = "returned"
    /\ hash_i > 0
    /\ hash_y_neg
    /\ point.y # BNeg(point.y)
    /\ curve.A # 0 /\ curve.B # 0 /\ point.x # 0

-----------------------------------------------------------------------------
(* Claims about plonk_recursion.rs, checked under SpecRec *)

\* how many calls of one kind the builder has seen
CountCalls(calls, kind) == Cardinality({k \in 1..Len(calls) : calls[k] = kind})

\* every circuit input the bundle stores, in field order
StoredInputs(bn) == bn.c_wires \o << bn.c_z >> \o bn.c_t \o bn.l_i \o bn.r_i

\* C6: the bundle returned for degree_pow holds exactly NUM_WIRES wire
\* commitments, one permutation commitment,
\* QUOTIENT_POLYNOMIAL_DEGREE_MULTIPLIER quotient commitments and degree_pow
\* left and degree_pow right commitments; add_circuit_input was called
\* NUM_WIRES + 1 + QUOTIENT_POLYNOMIAL_DEGREE_MULTIPLIER + 2 * degree_pow
\* times and each circuit input it returned is stored in the bundle once;
\* every public input was allocated before any circuit input; build() was
\* called once, after the last allocation.
C6_BundleShape ==
    rpc = "returned" =>
        LET calls == builder.calls
            stored == StoredInputs(bundle)
            total == NUM_WIRES + 1 + QUOTIENT_POLYNOMIAL_DEGREE_MULTIPLIER + 2 * degree_pow
        IN  /\ Len(bundle.c_wires) = NUM_WIRES
            /\ bundle.c_z \in {[circuit_input |-> k] : k \in 0..(total - 1)}
            /\ Len(bundle.c_t) = QUOTIENT_POLYNOMIAL_DEGREE_MULTIPLIER
            /\ Len(bundle.l_i) = degree_pow
            /\ Len(bundle.r_i) = degree_pow
            /\ CountCalls(calls, "add_circuit_input") = total
            /\ Len(stored) = total
            /\ {stored[k] : k \in 1..Len(stored)}
                   = {[circuit_input |-> k] : k \in 0..(total - 1)}
            /\ \A j \in 1..Len(calls), k \in 1..Len(calls) :
                   (calls[j] = "add_circuit_input"
                        /\ calls[k] \in {"add_public_input", "add_public_inputs"}) => k < j
            /\ CountCalls(calls, "build") = 1
            /\ calls[Len(calls)] = "build"

\* C6 witness: the call returned for the largest degree_pow, with as many
\* left as right commitments and at least one of each.
C6_Witness ==
    /\ rpc = "returned"
    /\ degree_pow = MaxDegreePow
    /\ Len(bundle.l_i) > 0
    /\ bundle.circuit.circuit_inputs > NUM_WIRES

====
